---------------------------- MODULE Spec2Model ----------------------------
(***************************************************************************)
(* Model of src/ecdsa/curves.py of python-ecdsa: the Curve descriptor, its *)
(* DER encoder (Curve.to_der) and decoder (Curve.from_der), the registry   *)
(* `curves` and find_curve.                                                *)
(*                                                                         *)
(* Byte strings are sequences of 0..255.  A Python value that may be None  *)
(* is a set: {} is None and {v} is the value v.  A call that raises is a   *)
(* record whose field exc names the exception class ("" when the call      *)
(* returns).  A Curve object is a record whose field id is its identity:   *)
(* `a is b` is a.id = b.id.                                                *)
(*                                                                         *)
(* der.py, util.py, ellipticcurve.py and ecdsa.py are modules of the       *)
(* package that curves.py imports; they are modelled from the interface    *)
(* the specification gives them (ASN.1 DER, big-endian conversion, SEC1    *)
(* point encodings).  The 112..521-bit constants of ecdsa.py are replaced  *)
(* by small curves of the same shape: prime order, a = -3 for the NIST     *)
(* curves, a = 0 and b = 7 for SECP256k1, one prime shared by SECP112r1    *)
(* and SECP112r2, cofactor 4 for SECP112r2, primes on both sides of the    *)
(* 0x80 and 0x100 encoding boundaries.                                     *)
(***************************************************************************)
EXTENDS Integers, Sequences, FiniteSets, TLC

VARIABLES curves, result, allocated

vars == <<curves, result, allocated>>

(* Bounds of the model *)
MaxAlloc == 2

MaxEdits == 2

-----------------------------------------------------------------------------
(* Python values *)

None == {}

Some(v) == {v}

Get(o) == CHOOSE v \in o : TRUE

Raise(exc, text, args) == [exc |-> exc, msg |-> [text |-> text, args |-> args]]

NoMsg == [text |-> "", args |-> <<>>]

(* x = e, then F(x): e is evaluated once, before F. *)
Let(e, F(_)) == CHOOSE r \in {F(x) : x \in {e}} : TRUE

(* x = e, then F(x), unless e raises: the exception propagates. *)
Try(e, F(_)) == Let(e, LAMBDA x : IF x.exc # "" THEN x ELSE F(x))

-----------------------------------------------------------------------------
(* util.py *)

RECURSIVE HexLen(_)
HexLen(n) == IF n < 16 THEN 1 ELSE 1 + HexLen(n \div 16)

orderlen(order) == (1 + HexLen(order)) \div 2

RECURSIVE BytesOf(_, _)
BytesOf(n, len) ==
    IF len = 0 THEN <<>> ELSE Append(BytesOf(n \div 256, len - 1), n % 256)

number_to_string(num, order) == BytesOf(num, orderlen(order))

RECURSIVE string_to_number(_)
string_to_number(string) ==
    IF string = <<>> THEN 0
    ELSE 256 * string_to_number(SubSeq(string, 1, Len(string) - 1))
         + string[Len(string)]

Drop(string, n) == SubSeq(string, n + 1, Len(string))

Take(string, n) == SubSeq(string, 1, IF n < Len(string) THEN n ELSE Len(string))

(* The Python slice string[i:j], 0 <= i: indices past the end are clamped. *)
Slice(string, i, j) ==
    SubSeq(string, (IF i < Len(string) THEN i ELSE Len(string)) + 1,
                   IF j < Len(string) THEN j ELSE Len(string))

-----------------------------------------------------------------------------
(* der.py: encoders *)

encode_length(l) ==
    IF l < 128 THEN <<l>>
    ELSE <<128 + orderlen(l)>> \o BytesOf(l, orderlen(l))

encode_integer(r) ==
    LET s == BytesOf(r, orderlen(r))
    IN  IF s[1] <= 127 THEN <<2>> \o encode_length(Len(s)) \o s
        ELSE <<2>> \o encode_length(Len(s) + 1) \o <<0>> \o s

encode_octet_string(s) == <<4>> \o encode_length(Len(s)) \o s

RECURSIVE Concat(_)
Concat(parts) ==
    IF parts = <<>> THEN <<>> ELSE Head(parts) \o Concat(Tail(parts))

encode_sequence(encoded_pieces) ==
    <<48>> \o encode_length(Len(Concat(encoded_pieces))) \o Concat(encoded_pieces)

RECURSIVE Base128(_)
Base128(n) == IF n = 0 THEN <<>> ELSE Append(Base128(n \div 128), 128 + (n % 128))

encode_number(n) ==
    LET d == Base128(n)
    IN  IF d = <<>> THEN <<0>>
        ELSE [d EXCEPT ![Len(d)] = d[Len(d)] - 128]

RECURSIVE EncodeNumbers(_)
EncodeNumbers(pieces) ==
    IF pieces = <<>> THEN <<>>
    ELSE encode_number(Head(pieces)) \o EncodeNumbers(Tail(pieces))

(* encode_oid(first, second, *pieces): TypeError without first and second, *)
(* AssertionError outside the two arcs' ranges.                            *)
encode_oid(oid) ==
    IF Len(oid) < 2
      THEN Raise("TypeError", "encode_oid() missing required argument", <<>>)
    ELSE IF ~(  (oid[1] \in 0..1 /\ oid[2] \in 0..39)
             \/ (oid[1] = 2 /\ oid[2] >= 0))
      THEN Raise("AssertionError", "", <<>>)
    ELSE LET body == encode_number(40 * oid[1] + oid[2])
                     \o EncodeNumbers(Drop(oid, 2))
         IN  [exc |-> "", msg |-> NoMsg,
              ret |-> <<6>> \o encode_length(Len(body)) \o body]

-----------------------------------------------------------------------------
(* der.py: decoders.  Each returns [exc, msg] or [exc |-> "", val, rest]. *)

UnexpectedDER(text) == Raise("UnexpectedDER", text, <<>>)

Parsed(val, rest) == [exc |-> "", msg |-> NoMsg, val |-> val, rest |-> rest]

read_length(string) ==
    IF string = <<>>
      THEN UnexpectedDER("Empty string can't encode valid length value")
    ELSE IF string[1] < 128 THEN Parsed(string[1], 1)
    ELSE LET llen == string[1] - 128
         IN  IF llen = 0
               THEN UnexpectedDER("Invalid length encoding, length of length is 0")
             ELSE IF llen > Len(string) - 1
               THEN UnexpectedDER("Length of length longer than provided buffer")
             ELSE IF string[2] = 0 \/ (llen = 1 /\ string[2] < 128)
               THEN UnexpectedDER("Not minimal encoding of length")
             ELSE Parsed(string_to_number(SubSeq(string, 2, 1 + llen)), 1 + llen)

is_sequence(string) == string # <<>> /\ string[1] = 48

remove_sequence(string) ==
    IF string = <<>>
      THEN UnexpectedDER("Empty string does not encode a sequence")
    ELSE IF string[1] # 48
      THEN UnexpectedDER("wanted type 'sequence' (0x30)")
    ELSE Try(read_length(Drop(string, 1)), LAMBDA l :
           IF l.val > Len(string) - 1 - l.rest
             THEN UnexpectedDER("Length longer than the provided buffer")
           ELSE Parsed(SubSeq(string, 2 + l.rest, 1 + l.rest + l.val),
                       Drop(string, 1 + l.rest + l.val)))

remove_integer(string) ==
    IF string = <<>>
      THEN UnexpectedDER("Empty string is an invalid encoding of an integer")
    ELSE IF string[1] # 2
      THEN UnexpectedDER("wanted type 'integer' (0x02)")
    ELSE Try(read_length(Drop(string, 1)), LAMBDA l :
           IF l.val > Len(string) - 1 - l.rest
             THEN UnexpectedDER("Length longer than provided buffer")
           ELSE IF l.val = 0
             THEN UnexpectedDER("0-byte long encoding of integer")
           ELSE LET numberbytes == SubSeq(string, 2 + l.rest, 1 + l.rest + l.val)
                IN  IF numberbytes[1] >= 128
                      THEN UnexpectedDER("Negative integers are not supported")
                    ELSE IF l.val > 1 /\ numberbytes[1] = 0 /\ numberbytes[2] < 128
                      THEN UnexpectedDER("Invalid encoding of integer, unnecessary zero padding bytes")
                    ELSE Parsed(string_to_number(numberbytes),
                                Drop(string, 1 + l.rest + l.val)))

remove_octet_string(string) ==
    IF Take(string, 1) # <<4>>
      THEN UnexpectedDER("wanted type 'octetstring' (0x04)")
    ELSE Try(read_length(Drop(string, 1)), LAMBDA l :
           Parsed(Slice(string, 1 + l.rest, 1 + l.rest + l.val),
                  Slice(string, 1 + l.rest + l.val, Len(string))))

(* read_number: one base-128 sub-identifier, read from position llen       *)
RECURSIVE ReadNumberFrom(_, _, _)
ReadNumberFrom(string, llen, number) ==
    IF llen >= Len(string) THEN UnexpectedDER("ran out of length bytes")
    ELSE LET d == string[llen + 1]
             n == number * 128 + (d % 128)
         IN  IF d < 128 THEN Parsed(n, llen + 1)
             ELSE ReadNumberFrom(string, llen + 1, n)

read_number(string) ==
    IF string[1] = 128
      THEN UnexpectedDER("Non minimal encoding of OID subidentifier")
    ELSE ReadNumberFrom(string, 0, 0)

(* remove_object's loop over the body: the sub-identifiers from position i *)
RECURSIVE ReadNumbers(_, _)
ReadNumbers(body, i) ==
    IF i >= Len(body) THEN Parsed(<<>>, <<>>)
    ELSE Try(read_number(Drop(body, i)), LAMBDA n :
           Try(ReadNumbers(body, i + n.rest), LAMBDA ns :
             Parsed(<<n.val>> \o ns.val, <<>>)))

remove_object(string) ==
    IF string = <<>>
      THEN UnexpectedDER("Empty string does not encode an object identifier")
    ELSE IF string[1] # 6
      THEN UnexpectedDER("wanted type 'object' (0x06)")
    ELSE Try(read_length(Drop(string, 1)), LAMBDA l :
           LET body == Slice(string, 1 + l.rest, 1 + l.rest + l.val)
               rest == Slice(string, 1 + l.rest + l.val, Len(string))
           IN  IF body = <<>> THEN UnexpectedDER("Empty object identifier")
               ELSE IF Len(body) # l.val
                 THEN UnexpectedDER("Length of object identifier longer than the provided buffer")
               ELSE Try(ReadNumbers(body, 0), LAMBDA ns :
                      LET n0    == ns.val[1]
                          first == IF n0 < 80 THEN n0 \div 40 ELSE 2
                      IN  Parsed(<<first, n0 - 40 * first>> \o Tail(ns.val), rest)))

-----------------------------------------------------------------------------
(* ellipticcurve.py *)

CurveFp(p, a, b, h) == [p |-> p, a |-> a, b |-> b, h |-> h]

(* CurveFp.__eq__: the prime and the coefficients modulo it; the cofactor  *)
(* takes no part.                                                          *)
CurveFp__eq__(c1, c2) ==
    /\ c1.p = c2.p
    /\ c1.a % c1.p = c2.a % c1.p
    /\ c1.b % c1.p = c2.b % c1.p

PointJacobi(curve, x, y, z, order, generator) ==
    [curve |-> curve, x |-> x, y |-> y, z |-> z, order |-> order,
     generator |-> generator]

(* PointJacobi.__eq__: the same curve and the same affine coordinates; the *)
(* order takes no part.                                                    *)
PointJacobi__eq__(g1, g2) ==
    /\ CurveFp__eq__(g1.curve, g2.curve)
    /\ LET p   == g1.curve.p
           zz1 == (g1.z * g1.z) % p
           zz2 == (g2.z * g2.z) % p
       IN  /\ (g1.x * zz2 - g2.x * zz1) % p = 0
           /\ (g1.y * zz2 * g2.z - g2.y * zz1 * g1.z) % p = 0

(* AbstractPoint.to_bytes *)
to_bytes(point, encoding) ==
    LET p     == point.curve.p
        x_str == number_to_string(point.x, p)
        y_str == number_to_string(point.y, p)
    IN  CASE encoding = "uncompressed" -> <<4>> \o x_str \o y_str
          [] encoding = "hybrid" ->
                (IF point.y % 2 = 1 THEN <<7>> ELSE <<6>>) \o x_str \o y_str
          [] encoding = "compressed" ->
                (IF point.y % 2 = 1 THEN <<3>> ELSE <<2>>) \o x_str

MalformedPointError(text) == Raise("MalformedPointError", text, <<>>)

(* PointJacobi.from_bytes(curve, data, valid_encodings = ("uncompressed",  *)
(* "compressed", "hybrid"), order, generator = True)                       *)
from_bytes(curve, data, order) ==
    LET p       == curve.p
        raw_len == 2 * orderlen(p)
        point(x, y) ==
            [exc |-> "", msg |-> NoMsg,
             ret |-> PointJacobi(curve, x, y, 1, order, TRUE)]
        x_raw   == string_to_number(SubSeq(data, 2, 1 + orderlen(p)))
        y_raw   == string_to_number(SubSeq(data, 2 + orderlen(p), 1 + raw_len))
    IN  IF Len(data) = raw_len + 1
          THEN IF data[1] \in {6, 7}
                 THEN IF \/ (y_raw % 2 = 1 /\ data[1] # 7)
                         \/ (y_raw % 2 = 0 /\ data[1] # 6)
                        THEN MalformedPointError("Inconsistent hybrid point encoding")
                      ELSE point(x_raw, y_raw)
               ELSE IF data[1] = 4 THEN point(x_raw, y_raw)
               ELSE MalformedPointError("Invalid X9.62 encoding of the public point")
        ELSE IF Len(data) = raw_len \div 2 + 1
          THEN IF data[1] \notin {2, 3}
                 THEN MalformedPointError("Malformed compressed point encoding")
               ELSE LET x     == string_to_number(Drop(data, 1))
                        alpha == (x * x * x + curve.a * x + curve.b) % p
                        roots == {r \in 0..(p - 1) : (r * r) % p = alpha}
                    IN  IF roots = {}
                          THEN MalformedPointError("Encoding does not correspond to a point on curve")
                        ELSE LET beta == CHOOSE r \in roots : TRUE
                             IN  IF (data[1] = 2) = (beta % 2 = 1)
                                   THEN point(x, p - beta)
                                 ELSE point(x, beta)
        ELSE MalformedPointError("Length of string does not match lengths of any of the enabled encodings")

-----------------------------------------------------------------------------
(* ecdsa.py: the curves and their generators (small stand-ins) *)

StandIn(p, a, b, h, x, y, order) ==
    [curve     |-> CurveFp(p, a, b, Some(h)),
     generator |-> PointJacobi(CurveFp(p, a, b, Some(h)), x, y, 1, order, TRUE)]

ecdsa_192             == StandIn( 97,  -3,  10, 1,  63,  53, 109)
ecdsa_224             == StandIn(113,  -3,  48, 1,  48,  35, 109)
ecdsa_256             == StandIn(131,  -3, 109, 1,  93,  41, 139)
ecdsa_384             == StandIn(193,  -3, 126, 1,  35, 126, 211)
ecdsa_521             == StandIn(263,  -3,  95, 1, 160, 210, 271)
ecdsa_secp256k1       == StandIn(163,   0,   7, 1,  14, 119, 139)
ecdsa_brainpoolp160r1 == StandIn(101,  27,   8, 1,  28,  71, 107)
ecdsa_brainpoolp192r1 == StandIn(127,  24,  84, 1, 112,  63, 113)
ecdsa_brainpoolp224r1 == StandIn(149,  24, 109, 1,  33,  66, 127)
ecdsa_brainpoolp256r1 == StandIn(197,  92,  72, 1,  25,  55, 191)
ecdsa_brainpoolp320r1 == StandIn(251, 169, 183, 1,  67,   5, 257)
ecdsa_brainpoolp384r1 == StandIn(257, 213, 156, 1, 117,  44, 281)
ecdsa_brainpoolp512r1 == StandIn(269, 123, 102, 1, 239, 207, 277)
ecdsa_112r1           == StandIn(103,  21, 102, 1,  33,  95,  97)
ecdsa_112r2           == StandIn(103,  13,  11, 4,  12,  91,  29)
ecdsa_128r1           == StandIn(107,  -3,  97, 1,  20,  36, 103)
ecdsa_160r1           == StandIn(109,  -3,  24, 1,   5,   5, 101)

-----------------------------------------------------------------------------
(* curves.py *)

PRIME_FIELD_OID == <<1, 2, 840, 10045, 1, 1>>

CHARACTERISTIC_TWO_FIELD_OID == <<1, 2, 840, 10045, 1, 2>>

UnknownCurveError(text, args) == Raise("UnknownCurveError", text, args)

Returns(ret) == [exc |-> "", msg |-> NoMsg, ret |-> ret]

(* Python's truth value of an oid argument: None and () are false. *)
Truthy(oid) == oid # None /\ Get(oid) # <<>>

(* Curve.__init__, lines 48-56: the fields set whatever the oid is.  id is *)
(* the identity of the object under construction; encoded_oid is None      *)
(* while the attribute is not set.                                         *)
CurveFields(id, name, curve, generator, oid, openssl_name) ==
    [id                   |-> id,
     name                 |-> name,
     openssl_name         |-> openssl_name,
     curve                |-> curve,
     generator            |-> generator,
     order                |-> generator.order,
     baselen              |-> orderlen(generator.order),
     verifying_key_length |-> 2 * orderlen(curve.p),
     signature_length     |-> 2 * orderlen(generator.order),
     oid                  |-> oid,
     encoded_oid          |-> None]

(* A constructor that leaves encoded_oid unset whatever the oid is. *)
Curve__init__NoEncodedOid(id, name, curve, generator, oid, openssl_name) ==
    Returns(CurveFields(id, name, curve, generator, oid, openssl_name))

Curve__init__(id, name, curve, generator, oid, openssl_name) ==
    LET self == CurveFields(id, name, curve, generator, oid, openssl_name)
    IN  IF Truthy(oid)
          THEN LET e == encode_oid(Get(oid))
               IN  IF e.exc # "" THEN e
                   ELSE Returns([self EXCEPT !.encoded_oid = Some(e.ret)])
        ELSE Returns(self)

(* An equality that also compares the names. *)
Curve__eq__WithName(self, other) ==
    /\ self.name = other.name
    /\ CurveFp__eq__(self.curve, other.curve)
    /\ PointJacobi__eq__(self.generator, other.generator)

Curve__eq__(self, other) ==
    /\ CurveFp__eq__(self.curve, other.curve)
    /\ PointJacobi__eq__(self.generator, other.generator)

-----------------------------------------------------------------------------
(* A named_curve encoding that falls back to the explicit one when the     *)
(* curve has no oid.                                                       *)
to_der_named_fallback(self) ==
    IF ~Truthy(self.oid)
      THEN LET curve_p == self.curve.p
           IN  Returns(encode_sequence(
                 <<encode_integer(1),
                   encode_sequence(<<encode_oid(PRIME_FIELD_OID).ret,
                                     encode_integer(curve_p)>>),
                   encode_sequence(
                     <<encode_octet_string(
                         number_to_string(self.curve.a % curve_p, curve_p)),
                       encode_octet_string(
                         number_to_string(self.curve.b % curve_p, curve_p))>>),
                   encode_octet_string(to_bytes(self.generator, "uncompressed")),
                   encode_integer(self.generator.order)>>))
    ELSE encode_oid(Get(self.oid))

(* Curve.to_der, lines 89-95: the named_curve encoding *)
to_der_named(self) ==
    IF ~Truthy(self.oid)
      THEN UnknownCurveError(
             "Can't encode curve using named_curve encoding without associated curve OID",
             <<>>)
    ELSE encode_oid(Get(self.oid))

(* Curve.to_der, lines 97-118: the ECParameters sequence *)
to_der_explicit(self, point_encoding) ==
    LET curve_p  == self.curve.p
        version  == encode_integer(1)
        field_id == encode_sequence(<<encode_oid(PRIME_FIELD_OID).ret,
                                      encode_integer(curve_p)>>)
        curve    == encode_sequence(
                      <<encode_octet_string(
                          number_to_string(self.curve.a % curve_p, curve_p)),
                        encode_octet_string(
                          number_to_string(self.curve.b % curve_p, curve_p))>>)
        base     == encode_octet_string(to_bytes(self.generator, point_encoding))
        order    == encode_integer(self.generator.order)
        seq_elements == <<version, field_id, curve, base, order>>
    IN  IF self.curve.h # None /\ Get(self.curve.h) # 0
          THEN Returns(encode_sequence(
                 Append(seq_elements, encode_integer(Get(self.curve.h)))))
        ELSE Returns(encode_sequence(seq_elements))

(* Curve.to_der(self, encoding, point_encoding); encoding is None or a    *)
(* string.                                                                 *)
to_der(self, encoding, point_encoding) ==
    LET enc == IF encoding = None
                 THEN IF Truthy(self.oid) THEN "named_curve" ELSE "explicit"
               ELSE Get(encoding)
    IN  IF enc = "named_curve" THEN to_der_named(self)
        ELSE to_der_explicit(self, point_encoding)

(* find_curve(oid_curve) over the registry reg *)
RECURSIVE FirstWithOid(_, _, _)
FirstWithOid(reg, i, oid_curve) ==
    IF i > Len(reg) THEN 0
    ELSE IF reg[i].oid = Some(oid_curve) THEN i
    ELSE FirstWithOid(reg, i + 1, oid_curve)

(* A scan that starts at the second entry of the registry. *)
find_curve_skip_first(oid_curve, reg) ==
    LET i == FirstWithOid(reg, 2, oid_curve)
    IN  IF i # 0 THEN Returns(reg[i])
        ELSE UnknownCurveError(
               "I don't know about the curve with oid %s.I only know about these: %s",
               <<oid_curve, [k \in 1..Len(reg) |-> reg[k].name]>>)

find_curve(oid_curve, reg) ==
    LET i == FirstWithOid(reg, 1, oid_curve)
    IN  IF i # 0 THEN Returns(reg[i])
        ELSE UnknownCurveError(
               "I don't know about the curve with oid %s.I only know about these: %s",
               <<oid_curve, [k \in 1..Len(reg) |-> reg[k].name]>>)

(* A decoder of the OID that does not look at what follows it. *)
from_der_oid_lenient(data, reg) ==
    Try(remove_object(data), LAMBDA o : find_curve(o.val, reg))

(* from_der, lines 129-132: the input is not a SEQUENCE *)
from_der_oid(data, reg) ==
    Try(remove_object(data), LAMBDA o :
      IF o.rest # <<>> THEN UnexpectedDER("Unexpected data after OID")
      ELSE find_curve(o.val, reg))

(* A version check that accepts every version from 1 on. *)
VersionAtLeast1(seq) ==
    Try(remove_integer(seq), LAMBDA version :
      IF version.val < 1
        THEN UnexpectedDER("Unknown parameter encoding format")
      ELSE version)

(* from_der, lines 140-142: the version *)
Version(seq) ==
    Try(remove_integer(seq), LAMBDA version :
      IF version.val # 1
        THEN UnexpectedDER("Unknown parameter encoding format")
      ELSE version)

(* A cofactor reader that rejects bytes after the cofactor. *)
CofactorStrict(rest) ==
    IF rest = <<>> THEN [exc |-> "", msg |-> NoMsg, cofactor |-> None]
    ELSE Try(remove_integer(rest), LAMBDA cofactor :
           IF cofactor.rest # <<>>
             THEN UnexpectedDER("Unexpected data after ECParameters.cofactor")
           ELSE [exc |-> "", msg |-> NoMsg, cofactor |-> Some(cofactor.val)])

(* from_der, lines 147-149: the optional cofactor; what follows it is not  *)
(* looked at.                                                              *)
Cofactor(rest) ==
    IF rest = <<>> THEN [exc |-> "", msg |-> NoMsg, cofactor |-> None]
    ELSE Try(remove_integer(rest), LAMBDA cofactor :
           [exc |-> "", msg |-> NoMsg, cofactor |-> Some(cofactor.val)])

(* from_der, lines 140-149: the elements of the ECParameters sequence *)
ECParameters(seq) ==
    Try(Version(seq), LAMBDA version :
    Try(remove_sequence(version.rest), LAMBDA field_id :
    Try(remove_sequence(field_id.rest), LAMBDA curve :
    Try(remove_octet_string(curve.rest), LAMBDA base_bytes :
    Try(remove_integer(base_bytes.rest), LAMBDA order :
    Try(Cofactor(order.rest), LAMBDA cofactor :
      [exc |-> "", msg |-> NoMsg, field_id |-> field_id.val,
       curve |-> curve.val, base_bytes |-> base_bytes.val,
       order |-> order.val, cofactor |-> cofactor.cofactor]))))))

(* A fieldID reader without the test for characteristic-two fields. *)
FieldIDNoChar2(field_id) ==
    Try(remove_object(field_id), LAMBDA field_type :
      IF field_type.val # PRIME_FIELD_OID
        THEN UnknownCurveError("Unknown field type: {0}", <<field_type.val>>)
      ELSE Try(remove_integer(field_type.rest), LAMBDA prime :
             IF prime.rest # <<>>
               THEN UnexpectedDER(
                      "Unexpected data after ECParameters.fieldID.Prime-p element")
             ELSE [exc |-> "", msg |-> NoMsg, prime |-> prime.val]))

(* from_der, lines 152-163: the ECParameters.fieldID sequence *)
FieldID(field_id) ==
    Try(remove_object(field_id), LAMBDA field_type :
      IF field_type.val = CHARACTERISTIC_TWO_FIELD_OID
        THEN UnknownCurveError("Characteristic 2 curves unsupported", <<>>)
      ELSE IF field_type.val # PRIME_FIELD_OID
        THEN UnknownCurveError("Unknown field type: {0}", <<field_type.val>>)
      ELSE Try(remove_integer(field_type.rest), LAMBDA prime :
             IF prime.rest # <<>>
               THEN UnexpectedDER(
                      "Unexpected data after ECParameters.fieldID.Prime-p element")
             ELSE [exc |-> "", msg |-> NoMsg, prime |-> prime.val]))

(* from_der, lines 166-171: the ECParameters.curve sequence; what follows  *)
(* b is not looked at.                                                     *)
CurveAB(curve) ==
    Try(remove_octet_string(curve), LAMBDA curve_a_bytes :
    Try(remove_octet_string(curve_a_bytes.rest), LAMBDA curve_b_bytes :
      [exc |-> "", msg |-> NoMsg,
       curve_a |-> string_to_number(curve_a_bytes.val),
       curve_b |-> string_to_number(curve_b_bytes.val)]))

(* from_der, lines 188-191: the well-known curve in preference *)
RECURSIVE FirstEqual(_, _, _)
FirstEqual(reg, i, tmp_curve) ==
    IF i > Len(reg) THEN 0
    ELSE IF Curve__eq__(tmp_curve, reg[i]) THEN i
    ELSE FirstEqual(reg, i + 1, tmp_curve)

(* A decoder that returns the curve it built, without the scan. *)
WellKnownNoScan(tmp_curve, reg) == tmp_curve

WellKnown(tmp_curve, reg) ==
    LET i == FirstEqual(reg, 1, tmp_curve)
    IN  IF i # 0 THEN reg[i] ELSE tmp_curve

(* Curve.from_der(data) over the registry reg; id is the identity the new  *)
(* Curve object gets.                                                      *)
from_der(data, reg, id) ==
    IF ~is_sequence(data) THEN from_der_oid(data, reg) ELSE
    Try(remove_sequence(data), LAMBDA seq :
      IF seq.rest # <<>>
        THEN UnexpectedDER("Unexpected data after ECParameters structure")
      ELSE
    Try(ECParameters(seq.val), LAMBDA params :
    Try(FieldID(params.field_id), LAMBDA field :
    Try(CurveAB(params.curve), LAMBDA ab :
    Let(CurveFp(field.prime, ab.curve_a, ab.curve_b, params.cofactor),
        LAMBDA curve_fp :
    Try(from_bytes(curve_fp, params.base_bytes, params.order), LAMBDA base :
    Try(Curve__init__(id, "unknown", curve_fp, base.ret, None, None),
        LAMBDA tmp_curve :
      Returns(WellKnown(tmp_curve.ret, reg)))))))))

-----------------------------------------------------------------------------
(* The module's top level: the seventeen Curve objects and the registry *)

Known(id, name, ec, oid, openssl_name) ==
    Curve__init__(id, name, ec.curve, ec.generator, Some(oid),
                  Some(openssl_name)).ret

NIST192p  == Known(1, "NIST192p", ecdsa_192, <<1, 2, 840, 10045, 3, 1, 1>>, "prime192v1")
NIST224p  == Known(2, "NIST224p", ecdsa_224, <<1, 3, 132, 0, 33>>, "secp224r1")
NIST256p  == Known(3, "NIST256p", ecdsa_256, <<1, 2, 840, 10045, 3, 1, 7>>, "prime256v1")
NIST384p  == Known(4, "NIST384p", ecdsa_384, <<1, 3, 132, 0, 34>>, "secp384r1")
NIST521p  == Known(5, "NIST521p", ecdsa_521, <<1, 3, 132, 0, 35>>, "secp521r1")
SECP256k1 == Known(6, "SECP256k1", ecdsa_secp256k1, <<1, 3, 132, 0, 10>>, "secp256k1")
BRAINPOOLP160r1 ==
    Known(7, "BRAINPOOLP160r1", ecdsa_brainpoolp160r1,
          <<1, 3, 36, 3, 3, 2, 8, 1, 1, 1>>, "brainpoolP160r1")
BRAINPOOLP192r1 ==
    Known(8, "BRAINPOOLP192r1", ecdsa_brainpoolp192r1,
          <<1, 3, 36, 3, 3, 2, 8, 1, 1, 3>>, "brainpoolP192r1")
BRAINPOOLP224r1 ==
    Known(9, "BRAINPOOLP224r1", ecdsa_brainpoolp224r1,
          <<1, 3, 36, 3, 3, 2, 8, 1, 1, 5>>, "brainpoolP224r1")
BRAINPOOLP256r1 ==
    Known(10, "BRAINPOOLP256r1", ecdsa_brainpoolp256r1,
          <<1, 3, 36, 3, 3, 2, 8, 1, 1, 7>>, "brainpoolP256r1")
BRAINPOOLP320r1 ==
    Known(11, "BRAINPOOLP320r1", ecdsa_brainpoolp320r1,
          <<1, 3, 36, 3, 3, 2, 8, 1, 1, 9>>, "brainpoolP320r1")
BRAINPOOLP384r1 ==
    Known(12, "BRAINPOOLP384r1", ecdsa_brainpoolp384r1,
          <<1, 3, 36, 3, 3, 2, 8, 1, 1, 11>>, "brainpoolP384r1")
BRAINPOOLP512r1 ==
    Known(13, "BRAINPOOLP512r1", ecdsa_brainpoolp512r1,
          <<1, 3, 36, 3, 3, 2, 8, 1, 1, 13>>, "brainpoolP512r1")
SECP112r1 == Known(14, "SECP112r1", ecdsa_112r1, <<1, 3, 132, 0, 6>>, "secp112r1")
SECP112r2 == Known(15, "SECP112r2", ecdsa_112r2, <<1, 3, 132, 0, 7>>, "secp112r2")
SECP128r1 == Known(16, "SECP128r1", ecdsa_128r1, <<1, 3, 132, 0, 28>>, "secp128r1")
SECP160r1 == Known(17, "SECP160r1", ecdsa_160r1, <<1, 3, 132, 0, 8>>, "secp160r1")

Registry ==
    <<NIST192p, NIST224p, NIST256p, NIST384p, NIST521p, SECP256k1,
      BRAINPOOLP160r1, BRAINPOOLP192r1, BRAINPOOLP224r1, BRAINPOOLP256r1,
      BRAINPOOLP320r1, BRAINPOOLP384r1, BRAINPOOLP512r1,
      SECP112r1, SECP112r2, SECP128r1, SECP160r1>>

-----------------------------------------------------------------------------
(* The calls the model makes: their arguments *)

PointEncodings == {"uncompressed", "compressed", "hybrid"}

Encodings == {None, Some("named_curve"), Some("explicit")}

(* Curves that are not in the registry: a curve of its own, a curve over   *)
(* the prime of NIST192p with cofactor 2, and the curve of NIST224p with   *)
(* another base point.                                                     *)
Unregistered ==
    {StandIn(137, 83, 134, 1, 47, 54, 149),
     StandIn( 97, 22,  63, 2,  1, 38,  53),
     StandIn(113, -3,  48, 1, 26, 12, 109)}

AllCurves == {[curve |-> Registry[i].curve, generator |-> Registry[i].generator] :
                 i \in 1..Len(Registry)} \cup Unregistered

(* The elements of an explicit ECParameters input, each settable: the      *)
(* values to_der gives them for the curve ec, then edited.  field_tail     *)
(* follows the prime inside fieldID, curve_tail follows b inside curve,    *)
(* seq_tail follows the last element inside the outer SEQUENCE, outer_tail *)
(* follows the outer SEQUENCE.                                             *)
Fields(ec, point_encoding) ==
    [version    |-> 1,
     field_type |-> PRIME_FIELD_OID,
     prime      |-> ec.curve.p,
     field_tail |-> <<>>,
     a          |-> number_to_string(ec.curve.a % ec.curve.p, ec.curve.p),
     b          |-> number_to_string(ec.curve.b % ec.curve.p, ec.curve.p),
     curve_tail |-> <<>>,
     base       |-> to_bytes(ec.generator, point_encoding),
     order      |-> ec.generator.order,
     cofactor   |-> ec.curve.h,
     seq_tail   |-> <<>>,
     outer_tail |-> <<>>]

Build(f) ==
    encode_sequence(
      <<encode_integer(f.version),
        encode_sequence(<<encode_oid(f.field_type).ret, encode_integer(f.prime),
                          f.field_tail>>),
        encode_sequence(<<encode_octet_string(f.a), encode_octet_string(f.b),
                          f.curve_tail>>),
        encode_octet_string(f.base),
        encode_integer(f.order),
        IF f.cofactor = None THEN <<>> ELSE encode_integer(Get(f.cofactor)),
        f.seq_tail>>) \o f.outer_tail

EditIds == 1..15

Edit(f, k) ==
    CASE k = 1  -> [f EXCEPT !.version = 2]
      [] k = 2  -> [f EXCEPT !.version = 0]
      [] k = 3  -> [f EXCEPT !.field_type = CHARACTERISTIC_TWO_FIELD_OID]
      [] k = 4  -> [f EXCEPT !.field_type = <<1, 2, 840, 10045, 1, 3>>]
      [] k = 5  -> [f EXCEPT !.field_type = <<1, 3, 132, 0, 6>>]
      [] k = 6  -> [f EXCEPT !.field_tail = <<0>>]
      [] k = 7  -> [f EXCEPT !.field_tail = <<255>>]
      [] k = 8  -> [f EXCEPT !.outer_tail = <<0>>]
      [] k = 9  -> [f EXCEPT !.outer_tail = <<48>>]
      [] k = 10 -> [f EXCEPT !.seq_tail = <<0>>]
      [] k = 11 -> [f EXCEPT !.seq_tail = <<2, 1, 1>>]
      [] k = 12 -> [f EXCEPT !.curve_tail = <<3, 2, 0, 1>>]
      [] k = 13 -> [f EXCEPT !.cofactor = None]
      [] k = 14 -> [f EXCEPT !.order = f.order + 2]
      [] k = 15 -> [f EXCEPT !.base = <<>>]

RECURSIVE ApplyEdits(_, _)
ApplyEdits(f, ks) ==
    IF ks = {} THEN f
    ELSE LET k == CHOOSE j \in ks : \A i \in ks : j <= i
         IN  ApplyEdits(Edit(f, k), ks \ {k})

EditSets == {ks \in SUBSET EditIds : Cardinality(ks) <= MaxEdits}

EditedBases ==
    {[ec |-> ecdsa_192, e |-> "uncompressed"],
     [ec |-> ecdsa_521, e |-> "compressed"],
     [ec |-> ecdsa_112r2, e |-> "hybrid"],
     [ec |-> StandIn(137, 83, 134, 1, 47, 54, 149), e |-> "uncompressed"]}

(* An explicit input: the curve it was written for, its elements, its bytes *)
Case(ec, f) == [ec |-> ec, f |-> f, data |-> Build(f)]

Cases ==
    {Case(ec, Fields(ec, e)) : ec \in AllCurves, e \in PointEncodings}
    \cup {Case(b.ec, ApplyEdits(Fields(b.ec, b.e), ks)) :
             b \in EditedBases, ks \in EditSets}

ExplicitInputs == {c.data : c \in Cases}

Oids ==
    {Get(Registry[i].oid) : i \in 1..Len(Registry)}
    \cup {<<1, 3, 132, 0, 99>>, <<1, 3, 132, 0>>, PRIME_FIELD_OID, <<2, 999, 3>>}

ExtraBytes == {<<0>>, <<48>>, <<255>>}

OidInputs ==
    {encode_oid(o).ret : o \in Oids}
    \cup {encode_oid(o).ret \o x : o \in Oids, x \in ExtraBytes}
    \cup {<<>>, <<5, 0>>, <<6, 0>>, <<6, 1>>, <<48>>, <<48, 0>>}

Inputs == ExplicitInputs \cup OidInputs

OidArguments ==
    {None, Some(<<>>), Some(<<1>>), Some(<<1, 2, 3>>), Some(<<1, 40>>),
     Some(<<2, 999, 3>>), Some(<<1, 2, 840, 10045, 3, 1, 1>>)}

-----------------------------------------------------------------------------
(* The state: the registry `curves`; result, the caller's hold on the      *)
(* outcome of its last call (op "none" when it holds nothing); allocated,  *)
(* the number of Curve objects handed out since the module was imported.   *)
(* The caller makes one call at a time: with fresh arguments when it holds *)
(* nothing, or on the value it holds; Discard lets go of that value.       *)

Outcome(op, args, r) ==
    [op |-> op, args |-> args, exc |-> r.exc, msg |-> r.msg,
     ret |-> IF r.exc = "" THEN r.ret ELSE None]

Nothing == [op |-> "none", args |-> <<>>, exc |-> "", msg |-> NoMsg, ret |-> None]

NewId == Len(Registry) + allocated + 1

Idle == result.op = "none"

HoldsCurve == result.op \in {"Curve", "from_der", "find_curve"} /\ result.exc = ""

HoldsBytes == result.op = "to_der" /\ result.exc = ""

Init ==
    /\ curves = Registry
    /\ result = Nothing
    /\ allocated = 0

(* Curve(name, curve, generator, oid) *)
Construct ==
    \E name \in {"unknown", "custom"}, ec \in AllCurves, oid \in OidArguments :
       \E r \in {Curve__init__(NewId, name, ec.curve, ec.generator, oid, None)} :
           /\ Idle
           /\ allocated < MaxAlloc
           /\ result' = Outcome("Curve", <<name, ec.curve, ec.generator, oid>>, r)
           /\ allocated' = allocated + 1
           /\ UNCHANGED curves

(* c.to_der(encoding, point_encoding), c a registry curve or the curve the *)
(* caller holds                                                            *)
ToDer ==
    \E encoding \in Encodings, point_encoding \in PointEncodings :
       \E self \in IF Idle THEN {curves[i] : i \in 1..Len(curves)}
                   ELSE IF HoldsCurve THEN {result.ret} ELSE {} :
          \E r \in {to_der(self, encoding, point_encoding)} :
             /\ result' = Outcome("to_der", <<self, encoding, point_encoding>>, r)
             /\ UNCHANGED <<curves, allocated>>

(* Curve.from_der(data), data an input or the bytes the caller holds *)
(* A from_der that appends the Curve it built to the registry. *)
FromDerRegisters ==
    \E data \in IF Idle THEN Inputs ELSE IF HoldsBytes THEN {result.ret} ELSE {} :
      \E r \in {from_der(data, curves, NewId)} :
        LET fresh == r.exc = "" /\ r.ret.id = NewId
        IN  /\ fresh => allocated < MaxAlloc
            /\ result' = Outcome("from_der", <<data>>, r)
            /\ allocated' = IF fresh THEN allocated + 1 ELSE allocated
            /\ curves' = IF fresh THEN Append(curves, r.ret) ELSE curves

FromDer ==
    \E data \in IF Idle THEN Inputs
                ELSE IF HoldsBytes THEN {result.ret} ELSE {} :
       \E r \in {from_der(data, curves, NewId)} :
       LET fresh == r.exc = "" /\ r.ret.id = NewId
       IN  /\ fresh => allocated < MaxAlloc
           /\ result' = Outcome("from_der", <<data>>, r)
           /\ allocated' = IF fresh THEN allocated + 1 ELSE allocated
           /\ UNCHANGED curves

(* find_curve(oid) *)
FindCurve ==
    \E oid \in Oids :
       \E r \in {find_curve(oid, curves)} :
          /\ Idle
          /\ result' = Outcome("find_curve", <<oid>>, r)
          /\ UNCHANGED <<curves, allocated>>

(* The caller lets go of the outcome it holds. *)
Discard ==
    /\ ~Idle
    /\ result' = Nothing
    /\ UNCHANGED <<curves, allocated>>

Next == Construct \/ ToDer \/ FromDer \/ FindCurve \/ Discard

Spec == Init /\ [][Next]_vars

-----------------------------------------------------------------------------
(* What the properties below read of the state *)

(* what to_der("explicit", e) writes for each curve of the inputs *)
WrittenCases ==
    {Case(ec, Fields(ec, e)) : ec \in AllCurves, e \in PointEncodings}

Decoded(data) == result.op = "from_der" /\ result.args = <<data>>

Failed(exc) == result.exc = exc /\ result.ret = None

IsRegistryObject(c) == \E i \in 1..Len(curves) : curves[i].id = c.id

(* from_der returns for this input, in the current state *)
Accepts(data) == from_der(data, curves, NewId).exc = ""

SameMath(c, ec) ==
    /\ CurveFp__eq__(c.curve, ec.curve)
    /\ PointJacobi__eq__(c.generator, ec.generator)

Least(S) == CHOOSE i \in S : \A j \in S : i <= j

-----------------------------------------------------------------------------
(* C1.  Round trip to the singleton: decoding what to_der("named_curve")   *)
(* wrote for a registry curve returns that very registry object, and so    *)
(* does decoding what to_der("explicit", e) wrote, for each of the three   *)
(* point encodings: the result is equal to the curve and is the same       *)
(* object, not a new Curve and not another registry entry.                 *)
C1_RoundTripSingleton ==
    \A i \in 1..Len(curves) :
       /\ Decoded(to_der(curves[i], Some("named_curve"), "uncompressed").ret)
             => /\ result.exc = ""
                /\ result.ret.id = curves[i].id
                /\ result.ret = curves[i]
       /\ \A e \in PointEncodings :
             Decoded(to_der(curves[i], Some("explicit"), e).ret)
                => /\ result.exc = ""
                   /\ Curve__eq__(result.ret, curves[i])
                   /\ result.ret.id = curves[i].id
                   /\ result.ret = curves[i]

C1_Witness ==
    /\ Decoded(to_der(curves[5], Some("explicit"), "compressed").ret)
    /\ result.exc = ""
    /\ result.ret.id = curves[5].id
    /\ result.ret.name = "NIST521p"

(* C2.  find_curve returns the first registry entry whose oid equals the   *)
(* query; the registry's oids are pairwise distinct, so that is the one    *)
(* entry carrying it; when no entry carries it the call raises             *)
(* UnknownCurveError, the message listing the names of all the registry's  *)
(* curves, and returns nothing.                                            *)
C2_FindCurve ==
    /\ \A i, j \in 1..Len(curves) : i # j => curves[i].oid # curves[j].oid
    /\ result.op = "find_curve" =>
          LET oid      == result.args[1]
              carriers == {i \in 1..Len(curves) : curves[i].oid = Some(oid)}
          IN  IF carriers # {}
                THEN /\ result.exc = ""
                     /\ result.ret = curves[Least(carriers)]
                     /\ Cardinality(carriers) = 1
              ELSE /\ Failed("UnknownCurveError")
                   /\ result.msg.args =
                         <<oid, [k \in 1..Len(curves) |-> curves[k].name]>>
                   /\ Len(result.msg.args[2]) = 17

C2_Witness ==
    /\ result.op = "find_curve"
    /\ result.args = <<(<<1, 2, 840, 10045, 3, 1, 1>>)>>
    /\ result.exc = ""
    /\ result.ret.name = "NIST192p"

(* C3.  Canonicalization: when from_der returns for an explicit input, the *)
(* result is the first registry curve whose curve and generator equal the  *)
(* ones the input was written for (names and oids take no part), and when  *)
(* there is none it is a new Curve named "unknown", without oid, with that *)
(* curve and generator, that is no registry object.                        *)
C3_Canonical ==
    \A c \in Cases \cup WrittenCases :
       (Decoded(c.data) /\ result.exc = "") =>
          LET equal == {i \in 1..Len(curves) : SameMath(curves[i], c.ec)}
          IN  IF equal # {}
                THEN result.ret = curves[Least(equal)]
              ELSE /\ result.ret.name = "unknown"
                   /\ result.ret.oid = None
                   /\ result.ret.encoded_oid = None
                   /\ SameMath(result.ret, c.ec)
                   /\ result.ret.order = c.f.order
                   /\ ~IsRegistryObject(result.ret)

C3_Witness ==
    /\ result.op = "from_der"
    /\ is_sequence(result.args[1])
    /\ result.exc = ""
    /\ result.ret.name = "unknown"
    /\ result.ret.curve.p = 113
    /\ ~IsRegistryObject(result.ret)

(* C4.  Trailing bytes: one more byte after an OID that from_der accepts,  *)
(* after the outer SEQUENCE of an explicit input it accepts, or after the  *)
(* prime inside the fieldID of an explicit input it accepts, makes         *)
(* from_der raise UnexpectedDER and return nothing.                        *)
C4_TrailingByte ==
    /\ \A o \in Oids, x \in ExtraBytes :
          (Decoded(encode_oid(o).ret \o x) /\ Accepts(encode_oid(o).ret))
             => Failed("UnexpectedDER")
    /\ \A c \in Cases :
          /\ (/\ Decoded(c.data)
              /\ Len(c.f.outer_tail) = 1
              /\ Accepts(Build([c.f EXCEPT !.outer_tail = <<>>])))
                => Failed("UnexpectedDER")
          /\ (/\ Decoded(c.data)
              /\ Len(c.f.field_tail) = 1
              /\ Accepts(Build([c.f EXCEPT !.field_tail = <<>>])))
                => Failed("UnexpectedDER")

C4_Witness ==
    /\ Decoded(Build([Fields(ecdsa_192, "uncompressed") EXCEPT !.field_tail = <<255>>]))
    /\ Accepts(Build(Fields(ecdsa_192, "uncompressed")))
    /\ Failed("UnexpectedDER")
    /\ result.msg.text = "Unexpected data after ECParameters.fieldID.Prime-p element"

(* C5, as claimed.  Every explicit input whose field type is the           *)
(* characteristic-two OID raises UnknownCurveError("Characteristic 2       *)
(* curves unsupported"), and every one whose field type is another OID     *)
(* than the prime-field one raises UnknownCurveError with another message  *)
(* that names the OID.                                                     *)
C5_FieldTypeAlways ==
    \A c \in Cases :
       Decoded(c.data) =>
          /\ c.f.field_type = CHARACTERISTIC_TWO_FIELD_OID
                => /\ Failed("UnknownCurveError")
                   /\ result.msg.text = "Characteristic 2 curves unsupported"
          /\ c.f.field_type \notin {CHARACTERISTIC_TWO_FIELD_OID, PRIME_FIELD_OID}
                => /\ Failed("UnknownCurveError")
                   /\ result.msg.text # "Characteristic 2 curves unsupported"
                   /\ result.msg.args = <<c.f.field_type>>

(* The elements of the outer SEQUENCE parse: nothing follows the SEQUENCE, *)
(* the version is 1, and fieldID, curve, base, order and the cofactor (if  *)
(* bytes follow the order) are read.                                       *)
ElementsParse(data) ==
    /\ remove_sequence(data).exc = ""
    /\ remove_sequence(data).rest = <<>>
    /\ ECParameters(remove_sequence(data).val).exc = ""

(* C5, amended.  An explicit input whose outer elements parse (no bytes    *)
(* after the SEQUENCE, version 1) raises UnknownCurveError                 *)
(* ("Characteristic 2 curves unsupported") when its field type is the      *)
(* characteristic-two OID, and UnknownCurveError with another message,     *)
(* naming the OID, when its field type is another OID than the prime-field *)
(* one; no curve is returned.                                              *)
C5_FieldType ==
    \A c \in Cases :
       (Decoded(c.data) /\ ElementsParse(c.data)) =>
          /\ c.f.field_type = CHARACTERISTIC_TWO_FIELD_OID
                => /\ Failed("UnknownCurveError")
                   /\ result.msg.text = "Characteristic 2 curves unsupported"
          /\ c.f.field_type \notin {CHARACTERISTIC_TWO_FIELD_OID, PRIME_FIELD_OID}
                => /\ Failed("UnknownCurveError")
                   /\ result.msg.text # "Characteristic 2 curves unsupported"
                   /\ result.msg.args = <<c.f.field_type>>

C5_Witness ==
    /\ Decoded(Build([Fields(ecdsa_192, "uncompressed") EXCEPT
                         !.field_type = CHARACTERISTIC_TWO_FIELD_OID,
                         !.field_tail = <<0>>]))
    /\ Failed("UnknownCurveError")
    /\ result.msg.text = "Characteristic 2 curves unsupported"

(* C6.  Version: an explicit input whose version is not 1 never yields a   *)
(* curve; whatever its other elements are, from_der raises UnexpectedDER.  *)
C6_Version ==
    \A c \in Cases :
       (Decoded(c.data) /\ c.f.version # 1) => Failed("UnexpectedDER")

C6_Witness ==
    /\ Decoded(Build([Fields(ecdsa_192, "uncompressed") EXCEPT
                         !.version = 2,
                         !.field_type = CHARACTERISTIC_TWO_FIELD_OID]))
    /\ Failed("UnexpectedDER")
    /\ result.msg.text = "Unknown parameter encoding format"

(* C7.  to_der("named_curve") on a Curve without oid raises                *)
(* UnknownCurveError and returns no bytes, whatever the point encoding.    *)
C7_NamedWithoutOid ==
    (/\ result.op = "to_der"
     /\ result.args[1].oid = None
     /\ result.args[2] = Some("named_curve"))
       => Failed("UnknownCurveError")

C7_Witness ==
    /\ result.op = "to_der"
    /\ result.args[1].oid = None
    /\ result.args[2] = Some("named_curve")
    /\ result.args[3] = "hybrid"
    /\ result.exc = "UnknownCurveError"

(* C8.  No call changes the registry: it holds the same Curve objects, in  *)
(* the same order, every field as the import left it; a Curve that         *)
(* from_der built is not in it.                                            *)
C8_RegistryUnchanged ==
    /\ curves = Registry
    /\ HoldsCurve /\ result.ret.id > Len(Registry) => ~IsRegistryObject(result.ret)

C8_Witness ==
    /\ allocated > 0
    /\ result.op = "from_der"
    /\ result.exc = ""
    /\ result.ret.id = Len(Registry) + allocated
    /\ curves = Registry

(* C9, as claimed.  A Curve the constructor returns has encoded_oid if and *)
(* only if its oid is not None, and encoded_oid is then the DER encoding   *)
(* of the oid.                                                             *)
C9_EncodedOidIffPresent ==
    (result.op = "Curve" /\ result.exc = "") =>
       /\ result.ret.encoded_oid # None <=> result.ret.oid # None
       /\ result.ret.encoded_oid # None =>
             /\ result.ret.encoded_oid = Some(encode_oid(Get(result.ret.oid)).ret)
             /\ remove_object(Get(result.ret.encoded_oid)).val = Get(result.ret.oid)

(* C9, amended.  A Curve the constructor returns has encoded_oid if and    *)
(* only if its oid is neither None nor empty, and encoded_oid is then the  *)
(* DER encoding of the oid.                                                *)
C9_EncodedOidIffNonEmpty ==
    (result.op = "Curve" /\ result.exc = "") =>
       /\ result.ret.oid = result.args[4]
       /\ result.ret.encoded_oid # None
             <=> (result.ret.oid # None /\ Get(result.ret.oid) # <<>>)
       /\ result.ret.encoded_oid # None =>
             /\ result.ret.encoded_oid = Some(encode_oid(Get(result.ret.oid)).ret)
             /\ remove_object(Get(result.ret.encoded_oid)).val = Get(result.ret.oid)

C9_Witness ==
    /\ result.op = "Curve"
    /\ result.exc = ""
    /\ result.ret.oid = Some(<<2, 999, 3>>)
    /\ result.ret.encoded_oid = Some(<<6, 3, 136, 55, 3>>)

(* C10.  What follows the cofactor inside the outer SEQUENCE, and what     *)
(* follows b inside the curve SEQUENCE, is not looked at: an input that    *)
(* from_der accepts, with bytes added there, is accepted too and gives the *)
(* same result (the same registry object, or a new Curve with the same     *)
(* fields).                                                                *)
SameResult(r, ret) ==
    /\ r.exc = ""
    /\ IF IsRegistryObject(r.ret) THEN ret = r.ret
       ELSE /\ ~IsRegistryObject(ret)
            /\ [ret EXCEPT !.id = 0] = [r.ret EXCEPT !.id = 0]

C10_TailIgnored ==
    \A c \in Cases :
       /\ (/\ Decoded(c.data)
           /\ c.f.seq_tail # <<>>
           /\ c.f.cofactor # None
           /\ Accepts(Build([c.f EXCEPT !.seq_tail = <<>>])))
             => /\ result.exc = ""
                /\ SameResult(from_der(Build([c.f EXCEPT !.seq_tail = <<>>]),
                                       curves, NewId), result.ret)
       /\ (/\ Decoded(c.data)
           /\ c.f.curve_tail # <<>>
           /\ Accepts(Build([c.f EXCEPT !.curve_tail = <<>>])))
             => /\ result.exc = ""
                /\ SameResult(from_der(Build([c.f EXCEPT !.curve_tail = <<>>]),
                                       curves, NewId), result.ret)

C10_Witness ==
    /\ Decoded(Build([Fields(ecdsa_112r2, "hybrid") EXCEPT !.seq_tail = <<0>>]))
    /\ result.exc = ""
    /\ result.ret.name = "SECP112r2"

=============================================================================
